---- MODULE Spec2Model ----
(***************************************************************************)
(* Model of src/shell/pwsh.rs: the PowerShell backend of the shell         *)
(* integration layer.  The Rust code only generates text; what the text    *)
(* does is decided by the PowerShell session that evaluates it.  The model *)
(* therefore has these parts:                                              *)
(*   - the generator functions (powershell_escape, set_env, prepend_env,   *)
(*     unset_env) and a reader of the lines they emit (SpecEnv);           *)
(*   - the statements of the activate text that hold the executable path,  *)
(*     and a reader of them (SpecText);                                    *)
(*   - the session that evaluates the activate / deactivate texts and then *)
(*     fires directory-change events and prompt renders (Spec) or wrapper  *)
(*     calls (SpecWrapper).                                                *)
(* A text is a sequence of lexemes: the fixed pieces of a template are one *)
(* lexeme each, every character of an input is a lexeme of its own.        *)
(***************************************************************************)
EXTENDS Integers, Sequences, FiniteSets, TLC

VARIABLES
    \* ---- generator inputs and the session that evaluates the env lines
    k,          \* key handed to set_env / prepend_env / unset_env
    v,          \* value handed to set_env / prepend_env
    text,       \* the line generated last
    shEnv,      \* environment of the evaluating session: name -> value
    run,        \* what evaluating the line did (see EvalText)
    envOp,      \* the operation that generated `text`
    nOps,       \* number of lines evaluated so far
    trail,      \* the operations evaluated so far, each with its value
    shEnv0,     \* the environment before the first line was evaluated
    \* ---- the activate text as generated
    exe,        \* ActivateOptions.exe
    flags,      \* ActivateOptions.flags
    calls,      \* the statements of the text that invoke exe, as read
    \* ---- session that evaluates the activate / deactivate texts
    fns,        \* functions defined among mise, _mise_hook
    prompt,     \* function:prompt (a script block, or null)
    env,        \* tool-related environment variables
    prevChpwd,  \* $__mise_pwsh_previous_chpwd_function
    origChpwd,  \* $__mise_original_pwsh_chpwd_function
    prevPrompt, \* $__mise_pwsh_previous_prompt_function
    lca,        \* $ExecutionContext...LocationChangedAction (invocation list)
    lastExit,   \* $LASTEXITCODE
    log,        \* what the last operation invoked, in order
    errs,       \* errors the last operation raised
    lastOp,     \* the last operation and its inputs
    hist,       \* the texts evaluated so far, in order
    initial,    \* the session as it was before any text was evaluated
    \* ---- inputs of a wrapper invocation
    typed,      \* the words typed after `mise'
    exeStatus,  \* exit status of the wrapped executable call
    hookStatus  \* exit status of the hook-env call

envVars  == <<k, v, text, shEnv, run, envOp, nOps, trail, shEnv0>>
genVars  == <<exe, flags, calls>>
sessVars == <<fns, prompt, env, prevChpwd, origChpwd, prevPrompt, lca,
              lastExit, log, errs, lastOp, hist, initial>>
callVars == <<typed, exeStatus, hookStatus>>
vars     == <<envVars, genVars, sessVars, callVars>>

(***************************************************************************)
(* Bounds                                                                  *)
(***************************************************************************)
MaxKeyLen == 2
MaxValLen == 2
MaxOps == 2
MaxPathLen == 2      \* characters of the executable path
MaxEvals == 3        \* texts evaluated in one session
MaxArgs == 1         \* words typed after the subcommand
CallDepthLimit == 3  \* nested calls PowerShell allows before it gives up

Range(s) == {s[i] : i \in 1..Len(s)}

RECURSIVE SeqsUpTo(_, _)
SeqsUpTo(S, n) ==
    IF n = 0 THEN {<<>>}
    ELSE LET shorter == SeqsUpTo(S, n - 1)
         IN  shorter \cup {Append(s, c) : s \in shorter, c \in S}

(***************************************************************************)
(* Characters.  NameChars may stand in a PowerShell variable name; the     *)
(* others are the characters the dialect gives a meaning to.               *)
(***************************************************************************)
QUOTE     == "QUOTE"      \* '
BACKTICK  == "BACKTICK"   \* `
TAB       == "TAB"        \* \t
LF        == "LF"         \* \n
CR        == "CR"         \* \r
SPACE     == "SPACE"
SEMI      == ";"

NameChars == {"K"}
KeyChars  == NameChars \cup {SEMI, QUOTE, SPACE, BACKTICK, LF}
ValChars  == {"a", QUOTE, BACKTICK, SPACE, TAB, LF, CR}
Keys      == SeqsUpTo(KeyChars, MaxKeyLen) \ {<<>>}
Values    == SeqsUpTo(ValChars, MaxValLen)

(***************************************************************************)
(* powershell_escape: escaping is done only when needs_escape holds, and   *)
(* needs_escape is s.is_empty().                                           *)
(***************************************************************************)
EscapeChar(c) ==
    CASE c = TAB      -> <<BACKTICK, "t">>
      [] c = LF       -> <<BACKTICK, "n">>
      [] c = CR       -> <<BACKTICK, "r">>
      [] c = QUOTE    -> <<BACKTICK, QUOTE>>
      [] c = BACKTICK -> <<BACKTICK, BACKTICK>>
      [] OTHER        -> <<c>>

RECURSIVE EscapeLoop(_)
EscapeLoop(s) ==
    IF s = <<>> THEN <<>> ELSE EscapeChar(Head(s)) \o EscapeLoop(Tail(s))

powershell_escape(s) ==
    LET needs_escape == (s = <<>>)
    IN  IF ~needs_escape THEN s ELSE EscapeLoop(s)

(***************************************************************************)
(* The three environment lines.                                            *)
(***************************************************************************)
set_env(key, val) ==
    <<"$Env:">> \o powershell_escape(key) \o <<"=", QUOTE>>
        \o powershell_escape(val) \o <<QUOTE, LF>>

\* a prepend that forgets what the variable held
PrependForgets(key, val) ==
    <<"$Env:">> \o powershell_escape(key) \o <<"=", QUOTE>>
        \o powershell_escape(val) \o <<QUOTE, LF>>

prepend_env(key, val) ==
    <<"$Env:">> \o powershell_escape(key) \o <<"=", QUOTE>>
        \o powershell_escape(val)
        \o <<QUOTE, "+[IO.Path]::PathSeparator+", "$env:">>
        \o powershell_escape(key) \o <<LF>>

\* an unset that assigns the empty string instead of removing
UnsetByEmptying(key) ==
    <<"$Env:">> \o powershell_escape(key) \o <<"=", QUOTE, QUOTE, LF>>

unset_env(key) ==
    <<"Remove-Item -Path Env:/">> \o powershell_escape(key) \o <<LF>>

(***************************************************************************)
(* The evaluating shell: how PowerShell reads a line the emitter produced. *)
(* Outside quotes, `;' and a line end close a statement and a backtick     *)
(* escapes the next character (backtick + line end continues the line).    *)
(* Inside single quotes every character is literal; a doubled quote stands *)
(* for one quote and a single quote ends the literal.                      *)
(***************************************************************************)
PATHSEP == ":"

Blank(s) == \A i \in 1..Len(s) : s[i] \in {SPACE, TAB}

RECURSIVE Scan(_, _, _, _, _)
Scan(t, i, inQuote, cur, acc) ==
    IF i > Len(t)
    THEN [unterminated |-> inQuote,
          stmts |-> IF Blank(cur) THEN acc ELSE Append(acc, cur)]
    ELSE LET c == t[i]
         IN  IF inQuote
             THEN Scan(t, i + 1, c # QUOTE, Append(cur, c), acc)
             ELSE CASE c = QUOTE -> Scan(t, i + 1, TRUE, Append(cur, c), acc)
                    [] c = BACKTICK /\ i < Len(t) ->
                         IF t[i + 1] = LF
                         THEN Scan(t, i + 2, FALSE, Append(cur, SPACE), acc)
                         ELSE Scan(t, i + 2, FALSE, cur \o <<c, t[i + 1]>>, acc)
                    [] c \in {SEMI, LF, CR} ->
                         Scan(t, i + 1, FALSE, <<>>,
                              IF Blank(cur) THEN acc ELSE Append(acc, cur))
                    [] OTHER -> Scan(t, i + 1, FALSE, Append(cur, c), acc)

SplitStatements(t) == Scan(t, 1, FALSE, <<>>, <<>>)

\* first index at or after i that holds no name character
RECURSIVE NameEnd(_, _)
NameEnd(s, i) ==
    IF i <= Len(s) /\ s[i] \in NameChars THEN NameEnd(s, i + 1) ELSE i

RECURSIVE SkipSpaces(_, _)
SkipSpaces(s, i) ==
    IF i <= Len(s) /\ s[i] \in {SPACE, TAB} THEN SkipSpaces(s, i + 1) ELSE i

\* the single-quoted literal whose opening quote is at i - 1
RECURSIVE SingleQuoted(_, _, _)
SingleQuoted(s, i, acc) ==
    IF i > Len(s) THEN [ok |-> FALSE, val |-> acc, next |-> i]
    ELSE IF s[i] = QUOTE
         THEN IF i < Len(s) /\ s[i + 1] = QUOTE
              THEN SingleQuoted(s, i + 2, Append(acc, QUOTE))
              ELSE [ok |-> TRUE, val |-> acc, next |-> i + 1]
         ELSE SingleQuoted(s, i + 1, Append(acc, s[i]))

Reading(kind, name, val, from) ==
    [kind |-> kind, name |-> name, val |-> val, from |-> from]

\* what follows the literal of an assignment: nothing, or the prepend suffix
ReadTail(name, lit, rest) ==
    IF Blank(rest) THEN Reading("set", name, lit, <<>>)
    ELSE IF /\ Len(rest) >= 3
            /\ rest[1] = "+[IO.Path]::PathSeparator+"
            /\ rest[2] = "$env:"
            /\ NameEnd(rest, 3) > 3
            /\ Blank(SubSeq(rest, NameEnd(rest, 3), Len(rest)))
         THEN Reading("prepend", name, lit,
                      SubSeq(rest, 3, NameEnd(rest, 3) - 1))
         ELSE Reading("parse_error", name, <<>>, <<>>)

ReadAssignment(s) ==
    LET j    == NameEnd(s, 2)
        name == SubSeq(s, 2, j - 1)
        e    == SkipSpaces(s, j)
        q    == SkipSpaces(s, e + 1)
    IN  IF name = <<>> THEN Reading("parse_error", name, <<>>, <<>>)
        ELSE IF e > Len(s) THEN Reading("read", name, <<>>, <<>>)
        ELSE IF s[e] = "=" /\ q <= Len(s) /\ s[q] = QUOTE
             THEN LET lit == SingleQuoted(s, q + 1, <<>>)
                  IN  IF lit.ok
                      THEN ReadTail(name, lit.val, SubSeq(s, lit.next, Len(s)))
                      ELSE Reading("parse_error", name, <<>>, <<>>)
             ELSE Reading("parse_error", name, <<>>, <<>>)

ReadRemove(s) ==
    LET j    == NameEnd(s, 2)
        name == SubSeq(s, 2, j - 1)
    IN  IF name # <<>> /\ Blank(SubSeq(s, j, Len(s)))
        THEN Reading("remove", name, <<>>, <<>>)
        ELSE Reading("bad_argument", name, <<>>, <<>>)

ReadStatement(stmt) ==
    LET s == SubSeq(stmt, SkipSpaces(stmt, 1), Len(stmt))
    IN  CASE s[1] = "$Env:" -> ReadAssignment(s)
          [] s[1] = "Remove-Item -Path Env:/" -> ReadRemove(s)
          [] OTHER -> Reading("not_found", <<>>, <<>>, <<>>)

ReadText(t) ==
    LET sp == SplitStatements(t)
        rs == [i \in 1..Len(sp.stmts) |-> ReadStatement(sp.stmts[i])]
    IN  [parseError |-> sp.unterminated
                        \/ \E i \in 1..Len(rs) : rs[i].kind = "parse_error",
         readings |-> rs]

EmptyEnv == [n \in {} |-> <<>>]

EnvGet(e, n) == IF n \in DOMAIN e THEN e[n] ELSE <<>>
EnvRemove(e, n) == [m \in DOMAIN e \ {n} |-> e[m]]
\* Older PowerShell builds delete a variable that is assigned the empty
\* string, newer ones keep it empty: emptyRemoves picks the build.
EnvPut(e, n, val, emptyRemoves) ==
    IF val = <<>> /\ emptyRemoves THEN EnvRemove(e, n)
    ELSE [m \in DOMAIN e \cup {n} |-> IF m = n THEN val ELSE e[m]]

ExecReading(r, st, emptyRemoves) ==
    CASE r.kind = "set" ->
           [st EXCEPT !.env = EnvPut(st.env, r.name, r.val, emptyRemoves)]
      [] r.kind = "prepend" ->
           [st EXCEPT !.env = EnvPut(st.env, r.name,
                                r.val \o <<PATHSEP>> \o EnvGet(st.env, r.from),
                                emptyRemoves)]
      [] r.kind = "remove" ->
           IF r.name \in DOMAIN st.env
           THEN [st EXCEPT !.env = EnvRemove(st.env, r.name)]
           ELSE [st EXCEPT !.errors = Append(st.errors, "ItemNotFound")]
      [] r.kind = "read" -> st
      [] OTHER -> [st EXCEPT !.errors = Append(st.errors, r.kind)]

RECURSIVE ExecReadings(_, _, _, _)
ExecReadings(rs, i, st, emptyRemoves) ==
    IF i > Len(rs) THEN st
    ELSE ExecReadings(rs, i + 1, ExecReading(rs[i], st, emptyRemoves),
                      emptyRemoves)

\* A text that does not parse runs no statement at all.
EvalText(t, e, emptyRemoves) ==
    LET rd == ReadText(t)
        st == IF rd.parseError
              THEN [env |-> e, errors |-> <<"ParseError">>]
              ELSE ExecReadings(rd.readings, 1,
                                [env |-> e, errors |-> <<>>], emptyRemoves)
    IN  [parseError |-> rd.parseError, readings |-> rd.readings,
         env |-> st.env, errors |-> st.errors]

(***************************************************************************)
(* The session that evaluates the activate and deactivate texts.           *)
(* A script block is named by what it does: Null, the user's own prompt P, *)
(* or the prompt function the activate text defines.  A delegate is its    *)
(* invocation list; the empty list is $null.                               *)
(***************************************************************************)
Null        == "null"
UserPrompt  == "P"
MisePrompt  == "mise_prompt"
UserHandler == "H"
MiseHandler == "mise_chpwd"
Absent      == "absent"
EnvNames    == {"MISE_SHELL", "__MISE_ORIG_PATH", "PATH", "__MISE_DIFF",
                "__MISE_WATCH"}
ExitCodes   == {0, 1}
Payloads    == {"none", "env"}

Session ==
    [fns |-> fns, prompt |-> prompt, env |-> env, prevChpwd |-> prevChpwd,
     origChpwd |-> origChpwd, prevPrompt |-> prevPrompt, lca |-> lca,
     lastExit |-> lastExit, log |-> <<>>, errs |-> {}]

Logged(s, e) == [s EXCEPT !.log = Append(s.log, e)]
Failed(s, e) == [s EXCEPT !.errs = s.errs \cup {e}]

\* The text hook-env prints is produced outside this file: it either changes
\* nothing or sets PATH and the diff-tracking variables.
ApplyPayload(s, payload) ==
    IF payload = "env"
    THEN [s EXCEPT !.env["PATH"] = "p1", !.env["__MISE_DIFF"] = "diff",
                   !.env["__MISE_WATCH"] = "watch"]
    ELSE s

\* & exe hook-env{flags} -s pwsh | Out-String | Invoke-Expression
HookEnv(s, hs, payload) ==
    ApplyPayload([Logged(Logged(s, "hook-env"), "iex") EXCEPT !.lastExit = hs],
                 payload)

\* a hook that does not look at MISE_SHELL
HookBodyUnchecked(s, hs, payload) == HookEnv(s, hs, payload)

\* body of function _mise_hook
HookBody(s, hs, payload) ==
    IF s.env["MISE_SHELL"] = "pwsh" THEN HookEnv(s, hs, payload) ELSE s

\* the command `_mise_hook': an error when no such function is defined
CallHook(s, hs, payload) ==
    IF "_mise_hook" \in s.fns
    THEN HookBody(Logged(s, "_mise_hook"), hs, payload)
    ELSE Failed(s, "CommandNotFound")

Combine(a, b) == a \o b

RegisterChpwd(s) ==
    IF s.prevChpwd = <<>>
    THEN LET s1 == [s EXCEPT !.prevChpwd = s.lca]
         IN  IF s1.origChpwd # <<>>
             THEN [s1 EXCEPT !.lca = Combine(s1.prevChpwd, <<MiseHandler>>)]
             ELSE [s1 EXCEPT !.lca = <<MiseHandler>>]
    ELSE s

\* a prompt registration without its guard
RegisterPromptUnguarded(s) ==
    [s EXCEPT !.prevPrompt = s.prompt, !.prompt = MisePrompt]

RegisterPrompt(s) ==
    IF s.prevPrompt = Null
    THEN [s EXCEPT !.prevPrompt = s.prompt, !.prompt = MisePrompt]
    ELSE s

SetMarkers(s) ==
    LET s1 == [s EXCEPT !.env["MISE_SHELL"] = "pwsh"]
    IN  [s1 EXCEPT !.env["__MISE_ORIG_PATH"] = s1.env["PATH"]]

DefineFunction(s, f) == [s EXCEPT !.fns = s.fns \cup {f}]

\* an activate text that holds the hook part whatever no_hook_env is
ActivateAlwaysHooks(s, no_hook_env, hs, payload) ==
    LET s1 == DefineFunction(Logged(SetMarkers(s), "markers"), "mise")
        s2 == Logged(DefineFunction(s1, "_mise_hook"), "define_hook")
        s3 == Logged(RegisterChpwd(s2), "register_chpwd")
        s4 == Logged(RegisterPrompt(s3), "register_prompt")
    IN  CallHook(s4, hs, payload)

\* an activate text whose hook part starts with the call of _mise_hook
ActivateHookFirst(s, no_hook_env, hs, payload) ==
    LET s1 == DefineFunction(Logged(SetMarkers(s), "markers"), "mise")
        s2 == CallHook(s1, hs, payload)
        s3 == Logged(DefineFunction(s2, "_mise_hook"), "define_hook")
        s4 == Logged(RegisterChpwd(s3), "register_chpwd")
        s5 == Logged(RegisterPrompt(s4), "register_prompt")
    IN  IF ~no_hook_env THEN s5 ELSE s1

\* the text activate returns, evaluated; the log names each part of the
\* text as it is reached
Activate(s, no_hook_env, hs, payload) ==
    LET s1 == DefineFunction(Logged(SetMarkers(s), "markers"), "mise")
        s2 == Logged(DefineFunction(s1, "_mise_hook"), "define_hook")
        s3 == Logged(RegisterChpwd(s2), "register_chpwd")
        s4 == Logged(RegisterPrompt(s3), "register_prompt")
    IN  IF ~no_hook_env THEN CallHook(s4, hs, payload) ELSE s1

\* Remove-Item of a target that does not exist reports ItemNotFound
RemoveFunction(s, f) ==
    IF f \in s.fns THEN [s EXCEPT !.fns = s.fns \ {f}]
    ELSE Failed(s, "ItemNotFound")

RemoveEnv(s, n) ==
    IF s.env[n] # Absent THEN [s EXCEPT !.env[n] = Absent]
    ELSE Failed(s, "ItemNotFound")

\* the text deactivate returns, evaluated
Deactivate(s) ==
    RemoveEnv(RemoveEnv(RemoveEnv(RemoveFunction(s, "mise"), "MISE_SHELL"),
                        "__MISE_WATCH"), "__MISE_DIFF")

\* a directory-change event: the handlers of the invocation list, in order
RECURSIVE InvokeHandlers(_, _, _, _)
InvokeHandlers(s, hl, hs, payload) ==
    IF hl = <<>> THEN s
    ELSE InvokeHandlers(IF Head(hl) = MiseHandler
                        THEN CallHook(s, hs, payload)
                        ELSE Logged(s, Head(hl)),
                        Tail(hl), hs, payload)

LocationChanged(s, hs, payload) == InvokeHandlers(s, s.lca, hs, payload)

\* & block, at call depth `depth'
RECURSIVE InvokeBlock(_, _, _, _, _)
InvokeBlock(s, block, depth, hs, payload) ==
    IF depth > CallDepthLimit THEN Failed(s, "CallDepthOverflow")
    ELSE CASE block = Null -> Failed(s, "NullCommand")
           [] block = MisePrompt ->
                LET s1 == IF "_mise_hook" \in s.fns
                          THEN CallHook(s, hs, payload) ELSE s
                IN  InvokeBlock(s1, s1.prevPrompt, depth + 1, hs, payload)
           [] OTHER -> Logged(s, block)

\* a prompt render: the host calls function:prompt when there is one
RenderedPrompt(s, hs, payload) ==
    IF s.prompt = Null THEN s ELSE InvokeBlock(s, s.prompt, 1, hs, payload)

(***************************************************************************)
(* The wrapper function mise.  -contains and -in compare strings without   *)
(* regard to letter case.                                                  *)
(***************************************************************************)
Commands  == {"deactivate", "shell", "sh", "ls", "--help"}
ArgWords  == {"--help", "-h", "-H"}
Family    == <<"deactivate", "shell", "sh">>

Lower(w) == IF w = "-H" THEN "-h" ELSE w

Contains(arr, w) == \E i \in 1..Len(arr) : Lower(arr[i]) = Lower(w)
In(w, arr) == Contains(arr, w)

\* $arr[lo..hi] with lo <= hi: positions past the end yield nothing
ArraySlice(arr, lo, hi) ==
    SubSeq(arr, lo + 1, IF hi + 1 < Len(arr) THEN hi + 1 ELSE Len(arr))

\* $command, [array]$arguments = Write-Output -- mise <typed words>:
\* $arguments is $null (here the empty list) when nothing follows mise.
ParsedArguments(words) == words

\* & exe ...
RunExe(s, es) == [Logged(s, "exe") EXCEPT !.lastExit = es]

\* & exe $command $arguments | Out-String | Invoke-Expression
\*     -ErrorAction SilentlyContinue
\* `out' is what the executable printed: nothing this model follows, or the
\* deactivate text.  `quiet' says whether the build lets -ErrorAction
\* silence the errors of the statements Invoke-Expression runs.
RunExeEval(s, es, out, quiet) ==
    LET s1 == Logged(RunExe(s, es), "iex")
        s2 == Deactivate(s1)
    IN  IF out = "deactivate"
        THEN IF quiet THEN [s2 EXCEPT !.errs = s1.errs] ELSE s2
        ELSE s1

\* a wrapper that calls the hook without looking for it first
TestPathHookAlways(s) == TRUE

\* Test-Path -Path Function:\_mise_hook
TestPathHook(s) == "_mise_hook" \in s.fns

\* a wrapper whose last line is missing
ExitWithNothing(s, status) == s

\* pwsh -NoProfile -Command exit $status
ExitWith(s, status) == [s EXCEPT !.lastExit = status]

WrapperDefault(s, es, hs, payload) ==
    LET s1     == RunExe(s, es)
        status == s1.lastExit
        s2     == IF TestPathHook(s1) THEN CallHook(s1, hs, payload) ELSE s1
    IN  ExitWith(s2, status)

\* a wrapper whose deactivation-family branch forgets the -h test
WrapperBranchNoShortHelp(words) ==
    LET arguments0 == ParsedArguments(words)
    IN  IF arguments0 = <<>> THEN "bare"
        ELSE LET command   == arguments0[1]
                 arguments == ArraySlice(arguments0, 1, Len(arguments0))
             IN  IF Contains(arguments, "--help") THEN "help"
                 ELSE IF In(command, Family) THEN "family_eval"
                      ELSE "default"

\* the branch of the wrapper a typed line takes
WrapperBranch(words) ==
    LET arguments0 == ParsedArguments(words)
    IN  IF arguments0 = <<>> THEN "bare"
        ELSE LET command   == arguments0[1]
                 arguments == ArraySlice(arguments0, 1, Len(arguments0))
             IN  IF Contains(arguments, "--help") THEN "help"
                 ELSE IF In(command, Family)
                      THEN IF \/ Contains(arguments, "-h")
                              \/ Contains(arguments, "--help")
                           THEN "family_help"
                           ELSE "family_eval"
                      ELSE "default"

Mise(s, words, es, hs, payload, out, quiet) ==
    CASE WrapperBranch(words) = "family_eval" -> RunExeEval(s, es, out, quiet)
      [] WrapperBranch(words) = "default" -> WrapperDefault(s, es, hs, payload)
      [] OTHER -> RunExe(s, es)

\* what the executable may print for a line of the deactivation family
Outputs(words) ==
    IF words # <<>> /\ Lower(words[1]) = "deactivate"
    THEN {"none", "deactivate"} ELSE {"none"}

TypedLines ==
    {<<>>} \cup {<<c>> \o a : c \in Commands, a \in SeqsUpTo(ArgWords, MaxArgs)}

(***************************************************************************)
(* The activate text: the statements that invoke the executable.  exe is   *)
(* opts.exe.to_string_lossy(), pasted as it is after the call operator.    *)
(***************************************************************************)
ExeChars   == {"m", "/", SPACE, SEMI, QUOTE}
ExePaths   == SeqsUpTo(ExeChars, MaxPathLen) \ {<<>>}
FlagsGiven == {<<>>, <<SPACE, "--status">>}
PIPE_IEX   == "| Out-String | Invoke-Expression -ErrorAction SilentlyContinue"

\* & {exe} ...
Delegation(path, rest) == <<"&", SPACE>> \o path \o rest

WrapperExeLines(path) ==
    << Delegation(path, <<LF>>),
       <<"return", SPACE>>
           \o Delegation(path, <<SPACE, "$command", SPACE, "$arguments",
                                 SPACE, LF>>),
       Delegation(path, <<SPACE, "$command", SPACE, "$arguments", LF>>),
       Delegation(path, <<SPACE, "$command", SPACE, "$arguments", SPACE,
                          PIPE_IEX, LF>>),
       Delegation(path, <<SPACE, "$command", SPACE, "$arguments", LF>>) >>

HookExeLine(path, fl) ==
    Delegation(path, <<SPACE, "hook-env">> \o fl
                       \o <<SPACE, "-s", SPACE, "pwsh", SPACE, PIPE_IEX, LF>>)

\* the statements of activate(opts) that hold {exe}, in the order of the text
ExeLines(path, fl, no_hook_env) ==
    WrapperExeLines(path)
        \o (IF ~no_hook_env THEN <<HookExeLine(path, fl)>> ELSE <<>>)

\* end of the bare word that starts at i
RECURSIVE WordEnd(_, _)
WordEnd(s, i) ==
    IF i <= Len(s) /\ s[i] \notin {SPACE, TAB, PIPE_IEX}
    THEN WordEnd(s, i + 1) ELSE i

Unquoted(w) == SelectSeq(w, LAMBDA c : c # QUOTE)

\* the command a statement `& <command> <arguments>' invokes: a quoted
\* literal, or a bare word that ends at the first blank
ReadCommand(s) ==
    LET a == IF Len(s) >= 2 /\ s[1] = "return" THEN SkipSpaces(s, 2) ELSE 1
        c == SkipSpaces(s, a + 1)
    IN  IF a > Len(s) \/ s[a] # "&" \/ c > Len(s)
        THEN [ok |-> FALSE, command |-> <<>>, rest |-> <<>>]
        ELSE IF s[c] = QUOTE
             THEN LET lit == SingleQuoted(s, c + 1, <<>>)
                  IN  [ok |-> lit.ok, command |-> lit.val,
                       rest |-> SubSeq(s, lit.next, Len(s))]
             ELSE [ok |-> TRUE,
                   command |-> Unquoted(SubSeq(s, c, WordEnd(s, c) - 1)),
                   rest |-> SubSeq(s, WordEnd(s, c), Len(s))]

ReadCall(line) ==
    LET sp == SplitStatements(line)
        rd == IF sp.stmts = <<>>
              THEN [ok |-> FALSE, command |-> <<>>, rest |-> <<>>]
              ELSE ReadCommand(sp.stmts[1])
    IN  [ok |-> rd.ok /\ ~sp.unterminated,
         statements |-> Len(sp.stmts),
         command |-> rd.command,
         rest |-> rd.rest]

(***************************************************************************)
(* Initial states                                                          *)
(***************************************************************************)
Op(kind, noHook, branch, hookDefined) ==
    [kind |-> kind, noHook |-> noHook, branch |-> branch,
     hookDefined |-> hookDefined]

InitSession ==
    /\ fns = {}
    /\ prompt \in {Null, UserPrompt}
    /\ env = [n \in EnvNames |-> IF n = "PATH" THEN "p0" ELSE Absent]
    /\ prevChpwd = <<>>
    /\ origChpwd = <<>>
    /\ prevPrompt = Null
    /\ lca \in {<<>>, <<UserHandler>>}
    /\ lastExit = 0
    /\ log = <<>>
    /\ errs = {}
    /\ lastOp = Op("none", FALSE, "none", FALSE)
    /\ hist = <<>>
    /\ initial = [lca |-> lca, prompt |-> prompt]

LaterValues == {<<"b">>}

\* a weird key with a plain value, or a plain key with any value
Inputs ==
    {<<key, <<"a">>>> : key \in Keys} \cup {<<<<"K">>, val>> : val \in Values}

InitEmitter ==
    /\ \E in \in Inputs : k = in[1] /\ v = in[2]
    /\ text = <<>>
    /\ shEnv \in {EmptyEnv, [n \in {<<"K">>} |-> <<"a">>]}
    /\ run = EvalText(<<>>, EmptyEnv, FALSE)
    /\ envOp = "none"
    /\ nOps = 0
    /\ trail = <<>>
    /\ shEnv0 = shEnv

NoEmitter ==
    /\ k = <<"K">> /\ v = <<>> /\ text = <<>> /\ shEnv = EmptyEnv
    /\ run = EvalText(<<>>, EmptyEnv, FALSE) /\ envOp = "none" /\ nOps = 0
    /\ trail = <<>> /\ shEnv0 = EmptyEnv

InitText ==
    /\ exe \in ExePaths
    /\ flags \in FlagsGiven
    /\ calls = <<>>

NoText == exe = <<"m">> /\ flags = <<>> /\ calls = <<>>

InitCall ==
    /\ typed \in TypedLines
    /\ exeStatus \in ExitCodes
    /\ hookStatus \in ExitCodes

NoCall == typed = <<>> /\ exeStatus = 0 /\ hookStatus = 0

(***************************************************************************)
(* Actions of the emitter specification: generate a line, evaluate it.     *)
(***************************************************************************)
Emit(op, val, line) ==
    /\ nOps < MaxOps
    /\ \E emptyRemoves \in BOOLEAN :
         LET r == EvalText(line, shEnv, emptyRemoves)
         IN  /\ run' = r
             /\ shEnv' = r.env
             /\ trail' = Append(trail, [op |-> op, val |-> val, env |-> r.env])
    /\ text' = line
    /\ envOp' = op
    /\ nOps' = nOps + 1
    /\ UNCHANGED <<k, v, shEnv0, genVars, sessVars, callVars>>

SetEnv     == Emit("set_env", v, set_env(k, v))
\* a later prepend may bring another value than the first
PrependEnv ==
    \E val \in {v} \cup LaterValues : Emit("prepend_env", val, prepend_env(k, val))
UnsetEnv   == Emit("unset_env", <<>>, unset_env(k))

(***************************************************************************)
(* Action of the text specification: activate(opts) returns its text.      *)
(***************************************************************************)
ActivateText ==
    /\ \E no_hook_env \in BOOLEAN :
         LET lines == ExeLines(exe, flags, no_hook_env)
         IN  calls' = [i \in 1..Len(lines) |-> ReadCall(lines[i])]
    /\ UNCHANGED <<exe, flags, envVars, sessVars, callVars>>

(***************************************************************************)
(* Actions of the session                                                  *)
(***************************************************************************)
Install(s) ==
    /\ fns' = s.fns
    /\ prompt' = s.prompt
    /\ env' = s.env
    /\ prevChpwd' = s.prevChpwd
    /\ origChpwd' = s.origChpwd
    /\ prevPrompt' = s.prevPrompt
    /\ lca' = s.lca
    /\ lastExit' = s.lastExit
    /\ log' = s.log
    /\ errs' = s.errs

EvalActivate ==
    /\ Len(hist) < MaxEvals
    /\ \E no_hook_env \in BOOLEAN, hs \in ExitCodes, payload \in Payloads :
         /\ Install(Activate(Session, no_hook_env, hs, payload))
         /\ hist' = Append(hist, IF no_hook_env THEN "activate_no_hook"
                                 ELSE "activate")
         /\ lastOp' = Op("activate", no_hook_env, "none", "_mise_hook" \in fns)
    /\ UNCHANGED <<initial, envVars, genVars, callVars>>

EvalDeactivate ==
    /\ Len(hist) < MaxEvals
    /\ Install(Deactivate(Session))
    /\ hist' = Append(hist, "deactivate")
    /\ lastOp' = Op("deactivate", FALSE, "none", "_mise_hook" \in fns)
    /\ UNCHANGED <<initial, envVars, genVars, callVars>>

ChangeDirectory ==
    /\ \E hs \in ExitCodes, payload \in Payloads :
         Install(LocationChanged(Session, hs, payload))
    /\ lastOp' = Op("cd", FALSE, "none", "_mise_hook" \in fns)
    /\ UNCHANGED <<hist, initial, envVars, genVars, callVars>>

RenderPrompt ==
    /\ \E hs \in ExitCodes, payload \in Payloads :
         Install(RenderedPrompt(Session, hs, payload))
    /\ lastOp' = Op("prompt", FALSE, "none", "_mise_hook" \in fns)
    /\ UNCHANGED <<hist, initial, envVars, genVars, callVars>>

\* the user types `mise <typed>' while the wrapper function is defined
MiseCall ==
    /\ "mise" \in fns
    /\ \E payload \in Payloads, out \in Outputs(typed), quiet \in BOOLEAN :
         /\ out = "deactivate" => Len(hist) < MaxEvals
         /\ Install(Mise(Session, typed, exeStatus, hookStatus, payload, out,
                         quiet))
         /\ hist' = IF out = "deactivate" /\ WrapperBranch(typed) = "family_eval"
                    THEN Append(hist, "deactivate") ELSE hist
    /\ lastOp' = Op("mise", FALSE, WrapperBranch(typed), "_mise_hook" \in fns)
    /\ UNCHANGED <<initial, envVars, genVars, callVars>>

(***************************************************************************)
(* Specifications                                                          *)
(***************************************************************************)
\* the session: texts evaluated, directory changes, prompt renders
Init == InitSession /\ NoEmitter /\ NoText /\ NoCall
Next == EvalActivate \/ EvalDeactivate \/ ChangeDirectory \/ RenderPrompt
Spec == Init /\ [][Next]_vars

\* the wrapper: a typed line, drawn at the start, run in every session the
\* texts can produce
InitWrapper == InitSession /\ NoEmitter /\ NoText /\ InitCall
NextWrapper == EvalActivate \/ EvalDeactivate \/ MiseCall
SpecWrapper == InitWrapper /\ [][NextWrapper]_vars

\* a session that is not looked at
NoSession ==
              /\ fns = {} /\ prompt = UserPrompt /\ lca = <<>>
              /\ env = [n \in EnvNames |-> IF n = "PATH" THEN "p0" ELSE Absent]
              /\ prevChpwd = <<>> /\ origChpwd = <<>> /\ prevPrompt = Null
              /\ lastExit = 0 /\ log = <<>> /\ errs = {} /\ hist = <<>>
              /\ lastOp = Op("none", FALSE, "none", FALSE)
              /\ initial = [lca |-> <<>>, prompt |-> UserPrompt]
\* the emitter: inputs drawn at the start, lines generated and evaluated
InitEnv == InitEmitter /\ NoText /\ NoCall /\ NoSession
NextEnv == SetEnv \/ PrependEnv \/ UnsetEnv
SpecEnv == InitEnv /\ [][NextEnv]_vars

\* the activate text: options drawn at the start, text generated and read
InitGen == InitText /\ NoEmitter /\ NoCall /\ NoSession
NextGen == ActivateText
SpecText == InitGen /\ [][NextGen]_vars

(***************************************************************************)
(* Properties                                                              *)
(***************************************************************************)
Count(sq, e) == Cardinality({i \in 1..Len(sq) : sq[i] = e})
OnlyEvaluated(what) ==
    hist # <<>> /\ \A i \in 1..Len(hist) : hist[i] = what
TheReading == run.readings[1]
ExpectedKind ==
    CASE envOp = "set_env" -> "set"
      [] envOp = "prepend_env" -> "prepend"
      [] envOp = "unset_env" -> "remove"
      [] OTHER -> "none"
TypedArgs == Tail(typed)

\* C1: the literal set_env emits between single quotes evaluates to the
\* value it was given: the line parses, is one assignment, and the assigned
\* value is v.
C1_RoundTrip ==
    (envOp = "set_env" /\ k = <<"K">>) =>
        /\ ~run.parseError
        /\ Len(run.readings) = 1
        /\ TheReading.kind = "set"
        /\ TheReading.val = v

\* C2: whatever the key, the generated line is exactly one statement, of the
\* kind asked for, acting on the variable named by the key.
C2_KeyNeverUnescaped ==
    envOp # "none" =>
        /\ ~run.parseError
        /\ Len(run.readings) = 1
        /\ TheReading.kind = ExpectedKind
        /\ TheReading.name = k
        /\ (envOp = "prepend_env" => TheReading.from = k)

\* C3: once the activate text (with hook) has been evaluated one or more
\* times, and nothing else, a directory change and a prompt render each
\* invoke _mise_hook exactly once.
C3_HookOncePerEvent ==
    (lastOp.kind \in {"cd", "prompt"} /\ OnlyEvaluated("activate")) =>
        Count(log, "_mise_hook") = 1

\* C4: in a session that started with a handler H on LocationChangedAction,
\* a directory change after activation invokes H and then the mise hook.
C4_ChpwdChained ==
    (/\ lastOp.kind = "cd"
     /\ initial.lca = <<UserHandler>>
     /\ OnlyEvaluated("activate")) =>
        \E i, j \in 1..Len(log) :
            i < j /\ log[i] = UserHandler /\ log[j] = "_mise_hook"

\* C5: activate followed by deactivate leaves no wrapper, no hook function,
\* the directory-change action and the prompt function as they were at the
\* start, and no MISE_SHELL, __MISE_DIFF or __MISE_WATCH.
C5_DeactivateReverses ==
    (/\ lastOp.kind = "deactivate"
     /\ Len(hist) = 2
     /\ hist[1] \in {"activate", "activate_no_hook"}) =>
        /\ "mise" \notin fns
        /\ "_mise_hook" \notin fns
        /\ lca = initial.lca
        /\ prompt = initial.prompt
        /\ env["MISE_SHELL"] = Absent
        /\ env["__MISE_DIFF"] = Absent
        /\ env["__MISE_WATCH"] = Absent

\* C6: the deactivate text evaluated in a session that never evaluated the
\* activate text raises no error.
C6_DeactivateSafe ==
    (lastOp.kind = "deactivate" /\ OnlyEvaluated("deactivate")) => errs = {}

\* C7: after a wrapper call that took the default branch, $LASTEXITCODE is
\* the exit status of the wrapped executable, whatever the hook returned.
C7_ExitStatusPreserved ==
    (lastOp.kind = "mise" /\ lastOp.branch = "default") => lastExit = exeStatus

\* C7 witness: the hook ran hook-env, which ended with another status.
C7_Witness ==
    /\ lastOp.kind = "mise" /\ lastOp.branch = "default"
    /\ Count(log, "hook-env") = 1
    /\ hookStatus # exeStatus
    /\ lastExit = exeStatus

\* C8: a typed line that holds --help anywhere makes the wrapper call the
\* executable only: no _mise_hook, no output evaluated as shell code.
C8_HelpBypass ==
    (lastOp.kind = "mise" /\ "--help" \in Range(typed)) =>
        /\ Count(log, "_mise_hook") = 0
        /\ Count(log, "iex") = 0

\* C9 as claimed: for the subcommands deactivate, shell and sh the output is
\* evaluated exactly when the arguments hold neither --help nor -h, and the
\* wrapper never invokes _mise_hook.
C9_FamilyDispatchExact ==
    (/\ lastOp.kind = "mise"
     /\ typed # <<>>
     /\ typed[1] \in {"deactivate", "shell", "sh"}) =>
        /\ Count(log, "iex") > 0
             <=> ("--help" \notin Range(TypedArgs) /\ "-h" \notin Range(TypedArgs))
        /\ Count(log, "_mise_hook") = 0

\* C9 as amended: the output is evaluated exactly when no argument is --help
\* or -h in any letter case; evaluated at most once, hook never invoked.
C9_FamilyDispatch ==
    (/\ lastOp.kind = "mise"
     /\ typed # <<>>
     /\ typed[1] \in {"deactivate", "shell", "sh"}) =>
        /\ Count(log, "iex") =
             (IF \E i \in 1..Len(TypedArgs) : TypedArgs[i] \in {"--help", "-h", "-H"}
              THEN 0 ELSE 1)
        /\ Count(log, "_mise_hook") = 0

\* C9 witness: `mise deactivate -H' typed in a session that has the hook
\* function: the executable ran and nothing was evaluated.
C9_Witness ==
    /\ lastOp.kind = "mise" /\ typed = <<"deactivate", "-H">>
    /\ lastOp.branch = "family_help"
    /\ log = <<"exe">>
    /\ lastOp.hookDefined

\* C10: the default branch run while no function _mise_hook is defined
\* skips the hook call, raises no error and keeps the executable's status.
C10_MissingHookSkipped ==
    (/\ lastOp.kind = "mise"
     /\ lastOp.branch = "default"
     /\ ~lastOp.hookDefined) =>
        /\ Count(log, "_mise_hook") = 0
        /\ errs = {}
        /\ lastExit = exeStatus

\* C10 witness: such a call, of an executable that failed.
C10_Witness ==
    /\ lastOp.kind = "mise" /\ lastOp.branch = "default"
    /\ ~lastOp.hookDefined
    /\ log = <<"exe">>
    /\ exeStatus = 1 /\ lastExit = 1

\* C11: every statement of the activate text that holds the executable
\* path is one statement that invokes exactly that path.
C11_ExeInvokedAsGiven ==
    \A i \in 1..Len(calls) :
        /\ calls[i].ok
        /\ calls[i].statements = 1
        /\ calls[i].command = exe

\* the environment before the i-th evaluated line
EnvBefore(i) == IF i = 1 THEN shEnv0 ELSE trail[i - 1].env

\* C12: two prepends in a row, to an identifier-safe key and of values
\* without a quote, leave the variable equal to the second value, the
\* separator, the first value, the separator and what the variable held
\* before the first of them (nothing when it was absent).
C12_PrependOrdering ==
    \A i \in 1..(Len(trail) - 1) :
        (/\ trail[i].op = "prepend_env" /\ trail[i + 1].op = "prepend_env"
         /\ Range(k) \subseteq NameChars
         /\ QUOTE \notin Range(trail[i].val) \cup Range(trail[i + 1].val)) =>
            /\ k \in DOMAIN trail[i + 1].env
            /\ trail[i + 1].env[k] =
                 trail[i + 1].val \o <<PATHSEP>> \o trail[i].val
                     \o <<PATHSEP>> \o EnvGet(EnvBefore(i), k)

\* C12 witness: K held a; a value with a backtick and then b were prepended.
C12_Witness ==
    /\ k = <<"K">> /\ v = <<BACKTICK>>
    /\ shEnv0 = [n \in {<<"K">>} |-> <<"a">>]
    /\ Len(trail) = 2
    /\ trail[1].op = "prepend_env" /\ trail[1].val = v
    /\ trail[2].op = "prepend_env" /\ trail[2].val = <<"b">>
    /\ shEnv = [n \in {<<"K">>} |-> <<"b", PATHSEP, BACKTICK, PATHSEP, "a">>]

\* C13: after the line unset_env gives for an identifier-safe key has been
\* evaluated, the variable is absent, whatever was evaluated before.
C13_UnsetRemoves ==
    (envOp = "unset_env" /\ Range(k) \subseteq NameChars) =>
        k \notin DOMAIN shEnv

\* C13 witness: the variable was set, then unset without an error.
C13_Witness ==
    /\ k = <<"K">>
    /\ Len(trail) = 2
    /\ trail[1].op = "set_env" /\ k \in DOMAIN trail[1].env
    /\ trail[2].op = "unset_env"
    /\ run.errors = <<>>
    /\ k \notin DOMAIN shEnv

\* C14: evaluating the activate text made with no_hook_env = true changes
\* neither the directory-change action, nor the prompt function, nor the
\* two guard variables, defines no _mise_hook and invokes no hook: it adds
\* the function mise, sets MISE_SHELL and copies PATH to __MISE_ORIG_PATH.
C14_NoHookFrame ==
    [][hist' = Append(hist, "activate_no_hook") =>
          /\ lca' = lca /\ prompt' = prompt
          /\ prevChpwd' = prevChpwd /\ prevPrompt' = prevPrompt
          /\ origChpwd' = origChpwd
          /\ fns' = fns \cup {"mise"}
          /\ env' = [env EXCEPT !["MISE_SHELL"] = "pwsh",
                                !["__MISE_ORIG_PATH"] = env["PATH"]]
          /\ Count(log', "_mise_hook") = 0 /\ Count(log', "hook-env") = 0
          /\ Count(log', "define_hook") = 0
          /\ Count(log', "register_chpwd") = 0
          /\ Count(log', "register_prompt") = 0
          /\ lastExit' = lastExit]_vars

\* C14 witness: a session with a handler H and a prompt P after one such
\* evaluation: only the wrapper is defined.
C14_Witness ==
    /\ hist = <<"activate_no_hook">> /\ lastOp.kind = "activate"
    /\ fns = {"mise"}
    /\ lca = <<UserHandler>> /\ prompt = UserPrompt
    /\ prevChpwd = <<>> /\ prevPrompt = Null
    /\ env["MISE_SHELL"] = "pwsh" /\ env["__MISE_ORIG_PATH"] = "p0"
    /\ log = <<"markers">>

\* the position of the first e in sq, 0 when there is none
First(sq, e) ==
    IF \E i \in 1..Len(sq) : sq[i] = e
    THEN CHOOSE i \in 1..Len(sq) : sq[i] = e /\ \A j \in 1..(i - 1) : sq[j] # e
    ELSE 0

\* C15: one evaluation of the activate text (no_hook_env = false) runs
\* hook-env exactly once, after the marker was set, _mise_hook was defined
\* and both registration statements were reached.
C15_InitialHookRun ==
    (lastOp.kind = "activate" /\ ~lastOp.noHook) =>
        /\ Count(log, "hook-env") = 1
        /\ \A e \in {"markers", "define_hook", "register_chpwd",
                      "register_prompt"} :
              /\ First(log, e) > 0
              /\ First(log, e) < First(log, "hook-env")

\* C15 witness: the first evaluation in a session, where MISE_SHELL was
\* absent and no _mise_hook was defined before.
C15_Witness ==
    /\ hist = <<"activate">> /\ lastOp.kind = "activate"
    /\ log = <<"markers", "define_hook", "register_chpwd", "register_prompt",
               "_mise_hook", "hook-env", "iex">>
    /\ errs = {}

\* C16: once an activate text has been evaluated, __MISE_ORIG_PATH holds the
\* PATH the session started with, and right after an evaluation MISE_SHELL
\* is pwsh.
C16_PathSnapshot ==
    /\ (\E i \in 1..Len(hist) : hist[i] \in {"activate", "activate_no_hook"})
          => env["__MISE_ORIG_PATH"] = "p0"
    /\ lastOp.kind = "activate" => env["MISE_SHELL"] = "pwsh"

\* C17: while the last text evaluated is the deactivate text, and an
\* activate text was evaluated before it, a directory change or a prompt
\* render runs no hook-env.
C17_NoHookAfterDeactivate ==
    (/\ lastOp.kind \in {"cd", "prompt"}
     /\ hist # <<>> /\ hist[Len(hist)] = "deactivate"
     /\ \E i \in 1..Len(hist) : hist[i] \in {"activate", "activate_no_hook"}) =>
        Count(log, "hook-env") = 0

\* C17 witness: activate, deactivate, then a directory change that still
\* reaches _mise_hook, which does nothing.
C17_Witness ==
    /\ hist = <<"activate", "deactivate">> /\ lastOp.kind = "cd"
    /\ log = <<"_mise_hook">>
    /\ env["MISE_SHELL"] = Absent

\* C18: in a session whose prompt function was P, once the activate text
\* (with hook) has been evaluated P is the saved previous prompt, and a
\* prompt render runs _mise_hook once, first, if it is defined, and then P
\* exactly once.
C18_PromptChained ==
    (initial.prompt = UserPrompt /\ "activate" \in Range(hist)) =>
        /\ prevPrompt = UserPrompt
        /\ prompt = MisePrompt
        /\ lastOp.kind = "prompt" =>
              /\ log # <<>> /\ log[Len(log)] = UserPrompt
              /\ Count(log, UserPrompt) = 1
              /\ Count(log, "_mise_hook") = (IF "_mise_hook" \in fns THEN 1 ELSE 0)
              /\ "_mise_hook" \in fns => log[1] = "_mise_hook"

\* C18 witness: a render after the activate text was evaluated twice.
C18_Witness ==
    /\ initial.prompt = UserPrompt /\ hist = <<"activate", "activate">>
    /\ lastOp.kind = "prompt"
    /\ prevPrompt = UserPrompt
    /\ log = <<"_mise_hook", "hook-env", "iex", UserPrompt>>

\* C19: the saved previous prompt is never the mise prompt function, and no
\* prompt render overflows the call depth.
C19_PromptTerminates ==
    /\ prevPrompt # MisePrompt
    /\ "CallDepthOverflow" \notin errs

\* C20: after activate, deactivate, activate the wrapper exists, MISE_SHELL
\* is pwsh, and a directory change or a prompt render runs hook-env exactly
\* once.
C20_Reactivation ==
    hist = <<"activate", "deactivate", "activate">> =>
        /\ "mise" \in fns
        /\ env["MISE_SHELL"] = "pwsh"
        /\ lastOp.kind \in {"cd", "prompt"} => Count(log, "hook-env") = 1

====
